---------------------------- MODULE Spec2Model ----------------------------
(***************************************************************************)
(* Portfolio risk and diversification analytics of ghostfolio:             *)
(*   AnalyticsService  (analytics.service.ts, the fraction-weighted shape) *)
(*   AiService.getSummary (ai.service.ts, the percentage-scaled shape).    *)
(* and the news endpoints:                                                 *)
(*   NewsService (news.service.ts): the article cache and the alerts.      *)
(*                                                                         *)
(* Numbers.  The services compute on JavaScript numbers.  The model        *)
(* computes on exact decimals: a number is <<i, f1, f2, f3>> and stands    *)
(* for i + f1/10^4 + f2/10^8 + f3/10^12, with i an integer (the floor)     *)
(* and 0 <= f1, f2, f3 < 10^4.  Allocation fractions carry at most five    *)
(* decimals, so every product and sum below is exact in twelve decimals.   *)
(* Spec and SpecCalls compute on these exact decimals and leave the binary *)
(* rounding error of IEEE-754 doubles out; SpecFloat computes the          *)
(* concentration results of both services in binary64.                     *)
(*                                                                         *)
(* Optional fields.  A field that may be absent (undefined / null) is      *)
(* << >> when absent and <<v>> when present; Coalesce is the ?? operator.  *)
(***************************************************************************)
EXTENDS Integers, Sequences, FiniteSets, TLC

VARIABLES
    holdings,    \* the positions portfolioService.getDetails returns
    analytics,   \* the last PortfolioAnalyticsResponse of getAnalytics
    summary,     \* the last AiSummaryResponse of getSummary
    calls,       \* invocations in flight or done, in the order entered
    newsArticles,\* the rows of table news_articles
    newsAlerts,  \* the rows of table news_alerts
    now          \* the clock of the database, NOW()

vars == <<holdings, analytics, summary, calls, newsArticles, newsAlerts, now>>

\* The state NewsService owns.
newsVars == <<newsArticles, newsAlerts, now>>

\* onModuleInit has created both tables, CREATE TABLE IF NOT EXISTS: no rows.
TablesCreated == newsArticles = {} /\ newsAlerts = {} /\ now = 0

---------------------------------------------------------------------------
(* Bounds of the model.                                                    *)

\* Longest holdings list.
MaxLen == 3

\* Invocations that may overlap in SpecCalls.
MaxCalls == 3

---------------------------------------------------------------------------
(* Optional values and the ?? operator.                                    *)

None == << >>

Some(v) == <<v>>

Coalesce(o, d) == IF o = None THEN d ELSE o[1]

---------------------------------------------------------------------------
(* Exact decimal arithmetic standing for the JavaScript number operators.  *)

Base == 100 * 100

\* Carries limbs that left 0..Base-1 into the next higher limb.
DNorm(i, a, b, c) ==
    LET b2 == b + (c \div Base)
        a2 == a + (b2 \div Base)
    IN  <<i + (a2 \div Base), a2 % Base, b2 % Base, c % Base>>

\* The integer n.
DInt(n) == <<n, 0, 0, 0>>

\* n / d for a divisor d of 10^4.
DFrac(n, d) == <<n \div d, (n % d) * (Base \div d), 0, 0>>

\* x + y
DAdd(x, y) == DNorm(x[1] + y[1], x[2] + y[2], x[3] + y[3], x[4] + y[4])

\* x - y
DSub(x, y) == DNorm(x[1] - y[1], x[2] - y[2], x[3] - y[3], x[4] - y[4])

\* x * k for an integer k >= 0
DScale(x, k) == DNorm(x[1] * k, x[2] * k, x[3] * k, x[4] * k)

\* x / 10^4 (the lowest limb of x is 0)
DShift(x) == <<x[1] \div Base, x[1] % Base, x[2], x[3]>>

\* x / d for a divisor d of 10^4
DDiv(x, d) == DShift(DScale(x, Base \div d))

\* x * y for x, y >= 0 with at most twelve decimals in the product
DMul(x, y) ==
    DAdd(DAdd(DScale(x, y[1]), DShift(DScale(x, y[2]))),
         DAdd(DShift(DShift(DScale(x, y[3]))),
              DShift(DShift(DShift(DScale(x, y[4]))))))

\* x < y
DLt(x, y) ==
    \/ x[1] < y[1]
    \/ x[1] = y[1] /\ x[2] < y[2]
    \/ x[1] = y[1] /\ x[2] = y[2] /\ x[3] < y[3]
    \/ x[1] = y[1] /\ x[2] = y[2] /\ x[3] = y[3] /\ x[4] < y[4]

\* x > y
DGt(x, y) == DLt(y, x)

\* x <= y
DLe(x, y) == ~DLt(y, x)

\* Math.min(x, y)
DMin(x, y) == IF DLt(y, x) THEN y ELSE x

\* Math.round(x): the nearest integer, a tie going up.
MathRound(x) == x[1] + (IF x[2] >= Base \div 2 THEN 1 ELSE 0)

\* x.toFixed(digits) for x >= 0 and digits in {1, 4}: the digits of the
\* decimal text, as the integer round(x * 10^digits).
toFixed(x, digits) ==
    MathRound(DScale(x, IF digits = 1 THEN 10 ELSE Base))

\* Decimal literals: n / 10^5 (an allocation fraction) and n / 10^3 (money).
Dec5(n) == DShift(DFrac(n, 10))

Dec3(n) == DFrac(n, 1000)

---------------------------------------------------------------------------
(* PortfolioPosition: the fields of a holding the two services read.       *)

Position(symbol, name, assetClass, allocation, value) ==
    [symbol |-> symbol, name |-> name, assetClass |-> assetClass,
     allocationInPercentage |-> allocation, valueInBaseCurrency |-> value]

\* The positions a portfolio is drawn from.  allocationInPercentage is a
\* fraction of the portfolio (0..1), absent on some positions; the
\* fractions of a list need not sum to 1.
Positions ==
    { Position(Some("AAPL"), Some("Apple"), Some("EQUITY"),
               Some(Dec5(100000)), Some(Dec3(1000000))),
      Position(Some("MSFT"), None, Some("EQUITY"),
               Some(Dec5(15004)), Some(Dec3(150040))),
      Position(Some("VTI"), Some("Total Market"), Some("EQUITY"),
               Some(Dec5(50006)), Some(Dec3(500060))),
      Position(Some("BND"), Some("Bonds"), Some("FIXED_INCOME"),
               Some(Dec5(50000)), Some(Dec3(500000))),
      Position(None, None, Some("FIXED_INCOME"),
               Some(Dec5(15004)), None),
      Position(Some("USD"), Some("Cash"), Some("LIQUIDITY"),
               Some(Dec5(400)), Some(Dec3(4004))),
      Position(Some("EUR"), None, Some("LIQUIDITY"),
               Some(Dec5(15004)), Some(Dec3(150046))),
      Position(Some("XAU"), Some("Gold"), None,
               None, Some(Dec3(4))) }

HoldingsLists == UNION { [1..n -> Positions] : n \in 0..MaxLen }

\* An absent fraction read as the whole portfolio.
Weight_DefaultOne(p) == Coalesce(p.allocationInPercentage, DInt(1))

\* p.allocationInPercentage ?? 0
Weight(p) == Coalesce(p.allocationInPercentage, DInt(0))

---------------------------------------------------------------------------
(* Array.prototype.sort with the comparator                                *)
(*   (a, b) => (b.key ?? 0) - (a.key ?? 0)                                 *)
(* descending by key, stable: equal keys keep their input order.           *)

\* [...positions].sort((a, b) =>
\*     (b.allocationInPercentage ?? 0) - (a.allocationInPercentage ?? 0))
RECURSIVE SortPositions(_)
SortPositions(s) ==
    IF s = << >> THEN << >>
    ELSE LET rest == SortPositions(SubSeq(s, 1, Len(s) - 1))
             e    == s[Len(s)]
         IN  SelectSeq(rest, LAMBDA x : ~DLt(Weight(x), Weight(e)))
             \o <<e>>
             \o SelectSeq(rest, LAMBDA x : DLt(Weight(x), Weight(e)))

\* entries.sort((a, b) => b.weight - a.weight)
RECURSIVE SortAllocation(_)
SortAllocation(s) ==
    IF s = << >> THEN << >>
    ELSE LET rest == SortAllocation(SubSeq(s, 1, Len(s) - 1))
             e    == s[Len(s)]
         IN  SelectSeq(rest, LAMBDA x : ~DLt(x.weight, e.weight))
             \o <<e>>
             \o SelectSeq(rest, LAMBDA x : DLt(x.weight, e.weight))

\* Math.round(x * 10000) / 10000
Round4(x) == DFrac(MathRound(DScale(x, 10000)), 10000)

\* Math.round(x * 100) / 100
Round2(x) == DFrac(MathRound(DScale(x, 100)), 100)

\* Math.round(x * 10000) / 100
RoundPct(x) == DFrac(MathRound(DScale(x, 10000)), 100)

---------------------------------------------------------------------------
(* Insight strings.  A template literal is kept as the rule that wrote it  *)
(* and the values it embeds: the strings as they are, the numbers as the   *)
(* digits toFixed / String() print.                                        *)

Msg(rule, strs, nums) == [rule |-> rule, strs |-> strs, nums |-> nums]

ConcentrationRules == {"HighConcentration", "ModerateConcentration"}

DiversificationRules ==
    {"GoodDiversification", "ModerateDiversification", "LowDiversification"}

\* The rules of the messages of an insight list, in order.
Rules(insights) == [i \in 1..Len(insights) |-> insights[i].rule]

---------------------------------------------------------------------------
(* AnalyticsService                                                        *)

\* The weight doubled in place of the weight squared.
Square_Doubled(w) == DScale(w, 2)

\* w * w
Square(w) == DMul(w, w)

\* positions.reduce((sum, p) => sum + w * w, 0)
RECURSIVE SumSquaredWeights(_)
SumSquaredWeights(positions) ==
    IF positions = << >> THEN DInt(0)
    ELSE LET w == Weight(positions[Len(positions)])
         IN  DAdd(SumSquaredWeights(SubSeq(positions, 1, Len(positions) - 1)),
                  Square(w))

\* hhi > 0.25, on the sum before it is rounded
IsHighlyConcentrated(hhi) == DGt(hhi, DFrac(25, 100))

\* The top holding read from the far end of the sorted copy.
computeConcentrationRisk_LastSorted(positions) ==
    IF Len(positions) = 0
    THEN [topHoldingSymbol |-> "", topHoldingName |-> "",
          topHoldingWeight |-> DInt(0), herfindahlIndex |-> DInt(0),
          isHighlyConcentrated |-> FALSE]
    ELSE LET sorted == SortPositions(positions)
             top    == sorted[Len(sorted)]
             hhi    == SumSquaredWeights(positions)
         IN  [topHoldingSymbol |-> Coalesce(top.symbol, ""),
              topHoldingName |-> Coalesce(top.name, Coalesce(top.symbol, "")),
              topHoldingWeight |-> Weight(top),
              herfindahlIndex |-> Round4(hhi),
              isHighlyConcentrated |-> IsHighlyConcentrated(hhi)]

computeConcentrationRisk(positions) ==
    IF Len(positions) = 0
    THEN [topHoldingSymbol |-> "", topHoldingName |-> "",
          topHoldingWeight |-> DInt(0), herfindahlIndex |-> DInt(0),
          isHighlyConcentrated |-> FALSE]
    ELSE LET sorted == SortPositions(positions)
             top    == sorted[1]
             hhi    == SumSquaredWeights(positions)
         IN  [topHoldingSymbol |-> Coalesce(top.symbol, ""),
              topHoldingName |-> Coalesce(top.name, Coalesce(top.symbol, "")),
              topHoldingWeight |-> Weight(top),
              herfindahlIndex |-> Round4(hhi),
              isHighlyConcentrated |-> IsHighlyConcentrated(hhi)]

\* A class map that outlives the invocation: it still holds the entries of
\* the last invocation that returned.
NewClassMap_Leftover ==
    LET done == { i \in 1..Len(calls) : calls[i].pc = "done" }
    IN  IF done = {} THEN << >>
        ELSE LET last == CHOOSE i \in done : \A j \in done : j <= i
                 left == calls[last].response[1].assetAllocation
             IN  [i \in 1..Len(left) |->
                     [assetClass |-> left[i].assetClass,
                      weight |-> left[i].weight,
                      value |-> left[i].valueInBaseCurrency]]

\* new Map<string, { weight: number; value: number }>()
NewClassMap == << >>

\* The for loop over positions: the Map as its entries in insertion order.
RECURSIVE BuildClassMap(_)
BuildClassMap(positions) ==
    IF positions = << >> THEN NewClassMap
    ELSE LET m   == BuildClassMap(SubSeq(positions, 1, Len(positions) - 1))
             p   == positions[Len(positions)]
             cls == Coalesce(p.assetClass, "UNKNOWN")
             w   == Weight(p)
             v   == Coalesce(p.valueInBaseCurrency, DInt(0))
         IN  IF \E i \in 1..Len(m) : m[i].assetClass = cls
             THEN [i \in 1..Len(m) |->
                     IF m[i].assetClass = cls
                     THEN [assetClass |-> cls,
                           weight |-> DAdd(m[i].weight, w),
                           value |-> DAdd(m[i].value, v)]
                     ELSE m[i]]
             ELSE Append(m, [assetClass |-> cls,
                             weight |-> DAdd(DInt(0), w),
                             value |-> DAdd(DInt(0), v)])

\* Math.floor in place of Math.round: the weight cut to 4 decimals.
EntryWeight_Truncated(weight) == DFrac(DScale(weight, 10000)[1], 10000)

\* The weight an AssetAllocationEntry reports for an aggregated weight.
EntryWeight(weight) == Round4(weight)

computeAssetAllocation(positions) ==
    LET m == BuildClassMap(positions)
    IN  SortAllocation([i \in 1..Len(m) |->
            [assetClass |-> m[i].assetClass,
             weight |-> EntryWeight(m[i].weight),
             valueInBaseCurrency |-> Round2(m[i].value)]])

\* allocation.filter(a => a.assetClass !== 'LIQUIDITY' && a.assetClass !== 'UNKNOWN')
CountedClasses(allocation) ==
    SelectSeq(allocation,
              LAMBDA a : a.assetClass # "LIQUIDITY" /\ a.assetClass # "UNKNOWN")

\* .reduce((sum, a) => sum + a.weight * a.weight, 0)
RECURSIVE SumSquaredEntryWeights(_)
SumSquaredEntryWeights(entries) ==
    IF entries = << >> THEN DInt(0)
    ELSE LET w == entries[Len(entries)].weight
         IN  DAdd(SumSquaredEntryWeights(SubSeq(entries, 1, Len(entries) - 1)),
                  DMul(w, w))

\* The evenness term scaled to 100 points instead of 30.
EvennessScore_Percent(classHhi) == DScale(DSub(DInt(1), classHhi), 100)

\* (1 - classHhi) * 30
EvennessScore(classHhi) == DScale(DSub(DInt(1), classHhi), 30)

\* Math.floor in place of Math.round.
CompositeScore_Truncated(holdingsScore, classScore, evennessScore) ==
    DMin(DAdd(DAdd(holdingsScore, classScore), evennessScore), DInt(100))[1]

\* Math.round(Math.min(holdingsScore + classScore + evennessScore, 100))
CompositeScore(holdingsScore, classScore, evennessScore) ==
    MathRound(DMin(DAdd(DAdd(holdingsScore, classScore), evennessScore),
                   DInt(100)))

computeDiversification(positions, allocation) ==
    LET holdingsCount ==
            Len(SelectSeq(positions,
                          LAMBDA p : p.assetClass # Some("LIQUIDITY")))
        assetClassCount == Len(CountedClasses(allocation))
        topAssetClass ==
            IF Len(allocation) = 0 THEN "UNKNOWN" ELSE allocation[1].assetClass
        topAssetClassWeight ==
            IF Len(allocation) = 0 THEN DInt(0) ELSE allocation[1].weight
        holdingsScore == DScale(DMin(DFrac(holdingsCount, 20), DInt(1)), 40)
        classScore    == DScale(DMin(DFrac(assetClassCount, 5), DInt(1)), 30)
        classHhi      == SumSquaredEntryWeights(CountedClasses(allocation))
        evennessScore == EvennessScore(classHhi)
    IN  [score |-> CompositeScore(holdingsScore, classScore, evennessScore),
         assetClassCount |-> assetClassCount,
         holdingsCount |-> holdingsCount,
         topAssetClass |-> topAssetClass,
         topAssetClassWeight |-> Round4(topAssetClassWeight)]

\* allocation.find(a => a.assetClass === cls): the entries found (0 or 1).
FindClass(allocation, cls) ==
    SelectSeq(allocation, LAMBDA a : a.assetClass = cls)

\* concentration.topHoldingWeight > 0.15
IsModeratelyConcentrated(concentration) ==
    DGt(concentration.topHoldingWeight, DFrac(15, 100))

\* The fixed-income block placed before the equity block.
generateInsights_WarningsSwapped(concentration, diversification, allocation) ==
    LET concentrationPart ==
            IF concentration.isHighlyConcentrated
            THEN <<Msg("HighConcentration",
                       <<concentration.topHoldingName,
                         concentration.topHoldingSymbol>>,
                       <<toFixed(DScale(concentration.topHoldingWeight, 100), 1),
                         toFixed(concentration.herfindahlIndex, 4)>>)>>
            ELSE IF IsModeratelyConcentrated(concentration)
            THEN <<Msg("ModerateConcentration",
                       <<concentration.topHoldingName>>,
                       <<toFixed(DScale(concentration.topHoldingWeight, 100), 1)>>)>>
            ELSE << >>
        diversificationPart ==
            IF diversification.score >= 70
            THEN <<Msg("GoodDiversification", << >>,
                       <<diversification.score, diversification.holdingsCount,
                         diversification.assetClassCount>>)>>
            ELSE IF diversification.score >= 40
            THEN <<Msg("ModerateDiversification", << >>,
                       <<diversification.score>>)>>
            ELSE <<Msg("LowDiversification",
                       <<diversification.topAssetClass>>,
                       <<diversification.score,
                         toFixed(DScale(diversification.topAssetClassWeight, 100),
                                 1)>>)>>
        equityAlloc      == FindClass(allocation, "EQUITY")
        fixedIncomeAlloc == FindClass(allocation, "FIXED_INCOME")
        equityPart ==
            IF equityAlloc # << >> /\ DGt(equityAlloc[1].weight, DFrac(8, 10))
            THEN <<Msg("EquityOverweight", << >>,
                       <<toFixed(DScale(equityAlloc[1].weight, 100), 1)>>)>>
            ELSE << >>
        fixedIncomePart ==
            IF fixedIncomeAlloc = << >>
               \/ DLt(fixedIncomeAlloc[1].weight, DFrac(5, 100))
            THEN <<Msg("NoFixedIncome", << >>, << >>)>>
            ELSE << >>
    IN  concentrationPart \o diversificationPart \o fixedIncomePart
        \o equityPart

\* The diversification block chained to the concentration block by else.
generateInsights_DiversificationElse(concentration, diversification, allocation) ==
    LET concentrationPart ==
            IF concentration.isHighlyConcentrated
            THEN <<Msg("HighConcentration",
                       <<concentration.topHoldingName,
                         concentration.topHoldingSymbol>>,
                       <<toFixed(DScale(concentration.topHoldingWeight, 100), 1),
                         toFixed(concentration.herfindahlIndex, 4)>>)>>
            ELSE IF IsModeratelyConcentrated(concentration)
            THEN <<Msg("ModerateConcentration",
                       <<concentration.topHoldingName>>,
                       <<toFixed(DScale(concentration.topHoldingWeight, 100), 1)>>)>>
            ELSE << >>
        diversificationPart ==
            IF concentrationPart # << >> THEN << >>
            ELSE IF diversification.score >= 70
            THEN <<Msg("GoodDiversification", << >>,
                       <<diversification.score, diversification.holdingsCount,
                         diversification.assetClassCount>>)>>
            ELSE IF diversification.score >= 40
            THEN <<Msg("ModerateDiversification", << >>,
                       <<diversification.score>>)>>
            ELSE <<Msg("LowDiversification",
                       <<diversification.topAssetClass>>,
                       <<diversification.score,
                         toFixed(DScale(diversification.topAssetClassWeight, 100),
                                 1)>>)>>
        equityAlloc      == FindClass(allocation, "EQUITY")
        fixedIncomeAlloc == FindClass(allocation, "FIXED_INCOME")
        equityPart ==
            IF equityAlloc # << >> /\ DGt(equityAlloc[1].weight, DFrac(8, 10))
            THEN <<Msg("EquityOverweight", << >>,
                       <<toFixed(DScale(equityAlloc[1].weight, 100), 1)>>)>>
            ELSE << >>
        fixedIncomePart ==
            IF fixedIncomeAlloc = << >>
               \/ DLt(fixedIncomeAlloc[1].weight, DFrac(5, 100))
            THEN <<Msg("NoFixedIncome", << >>, << >>)>>
            ELSE << >>
    IN  concentrationPart \o diversificationPart \o equityPart
        \o fixedIncomePart

generateInsights(concentration, diversification, allocation) ==
    LET concentrationPart ==
            IF concentration.isHighlyConcentrated
            THEN <<Msg("HighConcentration",
                       <<concentration.topHoldingName,
                         concentration.topHoldingSymbol>>,
                       <<toFixed(DScale(concentration.topHoldingWeight, 100), 1),
                         toFixed(concentration.herfindahlIndex, 4)>>)>>
            ELSE IF IsModeratelyConcentrated(concentration)
            THEN <<Msg("ModerateConcentration",
                       <<concentration.topHoldingName>>,
                       <<toFixed(DScale(concentration.topHoldingWeight, 100), 1)>>)>>
            ELSE << >>
        diversificationPart ==
            IF diversification.score >= 70
            THEN <<Msg("GoodDiversification", << >>,
                       <<diversification.score, diversification.holdingsCount,
                         diversification.assetClassCount>>)>>
            ELSE IF diversification.score >= 40
            THEN <<Msg("ModerateDiversification", << >>,
                       <<diversification.score>>)>>
            ELSE <<Msg("LowDiversification",
                       <<diversification.topAssetClass>>,
                       <<diversification.score,
                         toFixed(DScale(diversification.topAssetClassWeight, 100),
                                 1)>>)>>
        equityAlloc      == FindClass(allocation, "EQUITY")
        fixedIncomeAlloc == FindClass(allocation, "FIXED_INCOME")
        equityPart ==
            IF equityAlloc # << >> /\ DGt(equityAlloc[1].weight, DFrac(8, 10))
            THEN <<Msg("EquityOverweight", << >>,
                       <<toFixed(DScale(equityAlloc[1].weight, 100), 1)>>)>>
            ELSE << >>
        fixedIncomePart ==
            IF fixedIncomeAlloc = << >>
               \/ DLt(fixedIncomeAlloc[1].weight, DFrac(5, 100))
            THEN <<Msg("NoFixedIncome", << >>, << >>)>>
            ELSE << >>
    IN  concentrationPart \o diversificationPart \o equityPart
        \o fixedIncomePart

\* The synchronous part of getAnalytics, after getDetails has resolved.
\* computedAt (the wall clock) is no function of the holdings and is left out.
getAnalytics(positions) ==
    LET concentrationRisk == computeConcentrationRisk(positions)
        assetAllocation   == computeAssetAllocation(positions)
        diversification   == computeDiversification(positions, assetAllocation)
        insights == generateInsights(concentrationRisk, diversification,
                                     assetAllocation)
    IN  [assetAllocation |-> assetAllocation,
         concentrationRisk |-> concentrationRisk,
         diversification |-> diversification,
         insights |-> insights]

---------------------------------------------------------------------------
(* AiService: getSummary and its analytics helpers                         *)

AiComputeConcentration(positions) ==
    IF Len(positions) = 0
    THEN [topHoldingSymbol |-> "", topHoldingName |-> "",
          topHoldingWeight |-> DInt(0), herfindahlIndex |-> DInt(0),
          isHighlyConcentrated |-> FALSE]
    ELSE LET sorted == SortPositions(positions)
             top    == sorted[1]
             hhi    == SumSquaredWeights(positions)
         IN  [topHoldingSymbol |-> Coalesce(top.symbol, ""),
              topHoldingName |-> Coalesce(top.name, Coalesce(top.symbol, "")),
              topHoldingWeight |-> RoundPct(Weight(top)),
              herfindahlIndex |-> Round4(hhi),
              isHighlyConcentrated |-> DGt(hhi, DFrac(25, 100))]

\* The fraction rounded as in AnalyticsService, never scaled to a percentage.
AiEntryWeight_Fraction(weight) == Round4(weight)

\* The weight an AiSummaryAssetAllocation reports for an aggregated weight.
AiEntryWeight(weight) == RoundPct(weight)

AiComputeAssetAllocation(positions) ==
    LET m == BuildClassMap(positions)
    IN  SortAllocation([i \in 1..Len(m) |->
            [assetClass |-> m[i].assetClass,
             weight |-> AiEntryWeight(m[i].weight),
             valueInBaseCurrency |-> Round2(m[i].value)]])

\* .map(a => a.weight / 100).reduce((sum, w) => sum + w * w, 0)
RECURSIVE SumSquaredClassFractions(_)
SumSquaredClassFractions(entries) ==
    IF entries = << >> THEN DInt(0)
    ELSE LET w == DDiv(entries[Len(entries)].weight, 100)
         IN  DAdd(SumSquaredClassFractions(
                      SubSeq(entries, 1, Len(entries) - 1)),
                  DMul(w, w))

AiComputeDiversification(positions, allocation) ==
    LET holdingsCount ==
            Len(SelectSeq(positions,
                          LAMBDA p : p.assetClass # Some("LIQUIDITY")))
        assetClassCount == Len(CountedClasses(allocation))
        topAssetClass ==
            IF Len(allocation) = 0 THEN "UNKNOWN" ELSE allocation[1].assetClass
        topAssetClassWeight ==
            IF Len(allocation) = 0 THEN DInt(0) ELSE allocation[1].weight
        holdingsScore == DScale(DMin(DFrac(holdingsCount, 20), DInt(1)), 40)
        classScore    == DScale(DMin(DFrac(assetClassCount, 5), DInt(1)), 30)
        classHhi      == SumSquaredClassFractions(CountedClasses(allocation))
        evennessScore == DScale(DSub(DInt(1), classHhi), 30)
    IN  [score |-> MathRound(DMin(DAdd(DAdd(holdingsScore, classScore),
                                       evennessScore),
                                  DInt(100))),
         assetClassCount |-> assetClassCount,
         holdingsCount |-> holdingsCount,
         topAssetClass |-> topAssetClass,
         topAssetClassWeight |-> topAssetClassWeight]

\* concentration.topHoldingWeight > 15
AiIsModeratelyConcentrated(concentration) ==
    DGt(concentration.topHoldingWeight, DInt(15))

AiGenerateInsights(concentration, diversification, allocation) ==
    LET concentrationPart ==
            IF concentration.isHighlyConcentrated
            THEN <<Msg("HighConcentration",
                       <<concentration.topHoldingName>>,
                       <<toFixed(concentration.topHoldingWeight, 1),
                         toFixed(concentration.herfindahlIndex, 4)>>)>>
            ELSE IF AiIsModeratelyConcentrated(concentration)
            THEN <<Msg("ModerateConcentration",
                       <<concentration.topHoldingName>>,
                       <<toFixed(concentration.topHoldingWeight, 1)>>)>>
            ELSE << >>
        diversificationPart ==
            IF diversification.score >= 70
            THEN <<Msg("GoodDiversification", << >>,
                       <<diversification.score, diversification.holdingsCount,
                         diversification.assetClassCount>>)>>
            ELSE IF diversification.score >= 40
            THEN <<Msg("ModerateDiversification", << >>,
                       <<diversification.score>>)>>
            ELSE <<Msg("LowDiversification",
                       <<diversification.topAssetClass>>,
                       <<diversification.score,
                         toFixed(diversification.topAssetClassWeight, 1)>>)>>
        equityAlloc == FindClass(allocation, "EQUITY")
        equityPart ==
            IF equityAlloc # << >> /\ DGt(equityAlloc[1].weight, DInt(80))
            THEN <<Msg("EquityOverweight", << >>,
                       <<toFixed(equityAlloc[1].weight, 1)>>)>>
            ELSE << >>
        fixedIncome == FindClass(allocation, "FIXED_INCOME")
        fixedIncomePart ==
            IF fixedIncome = << >> \/ DLt(fixedIncome[1].weight, DInt(5))
            THEN <<Msg("NoFixedIncome", << >>, << >>)>>
            ELSE << >>
    IN  concentrationPart \o diversificationPart \o equityPart
        \o fixedIncomePart

\* positions.map(p => ({ symbol, name, assetClass, allocationPercentage,
\* valueInBaseCurrency })): the rows of the structured holdings list.
\* assetSubClass, currency and marketPrice are copied into the rows and
\* read by nothing else; they are left out.
\*
\* getSummary is the synchronous part after getDetails has resolved.
\* positions.sort(...) sorts the array in place, so the helpers below it
\* read the sorted array.  computedAt is left out.
holdingsList(positions) ==
    [i \in 1..Len(positions) |->
        [symbol |-> Coalesce(positions[i].symbol, ""),
         name |-> Coalesce(positions[i].name,
                           Coalesce(positions[i].symbol, "")),
         assetClass |-> Coalesce(positions[i].assetClass, "UNKNOWN"),
         allocationPercentage |-> RoundPct(Weight(positions[i])),
         valueInBaseCurrency |->
             Round2(Coalesce(positions[i].valueInBaseCurrency, DInt(0)))]]

getSummary(values) ==
    LET positions == SortPositions(values)
        concentration   == AiComputeConcentration(positions)
        assetAllocation == AiComputeAssetAllocation(positions)
        diversification == AiComputeDiversification(positions, assetAllocation)
        insights == AiGenerateInsights(concentration, diversification,
                                       assetAllocation)
    IN  [assetAllocation |-> assetAllocation,
         concentration |-> concentration,
         diversification |-> diversification,
         holdings |-> holdingsList(positions),
         insights |-> insights]

---------------------------------------------------------------------------
(* The two endpoints on one portfolio.                                     *)

Init ==
    /\ holdings \in HoldingsLists
    /\ analytics = None
    /\ summary = None
    /\ calls = << >>
    /\ TablesCreated

\* GET /api/v1/analytics: AnalyticsService.getAnalytics
GetAnalytics ==
    /\ analytics' = Some(getAnalytics(holdings))
    /\ UNCHANGED <<holdings, summary, calls, newsVars>>

\* AiService.getSummary
GetSummary ==
    /\ summary' = Some(getSummary(holdings))
    /\ UNCHANGED <<holdings, analytics, calls, newsVars>>

Next == GetAnalytics \/ GetSummary

Spec == Init /\ [][Next]_vars

---------------------------------------------------------------------------
(* Scenario portfolios: the lists above, lists over positions that sit at  *)
(* the thresholds of the asset-class rules, and the even portfolio of 20   *)
(* holdings in 5 asset classes.                                            *)

ScenarioPositions ==
    { Position(Some("SPY"), Some("S&P 500"), Some("EQUITY"),
               Some(Dec5(90000)), Some(Dec3(900000))),
      Position(Some("QQQ"), Some("Nasdaq 100"), Some("EQUITY"),
               Some(Dec5(80004)), Some(Dec3(800040))),
      Position(Some("TLT"), Some("Treasuries"), Some("FIXED_INCOME"),
               Some(Dec5(4996)), Some(Dec3(49960))),
      Position(Some("VEA"), Some("Developed Markets"), Some("EQUITY"),
               Some(Dec5(25000)), Some(Dec3(250000))),
      Position(Some("VWO"), Some("Emerging Markets"), Some("EQUITY"),
               Some(Dec5(25000)), Some(Dec3(250000))),
      Position(Some("AGG"), Some("Aggregate Bonds"), Some("FIXED_INCOME"),
               Some(Dec5(50000)), Some(Dec3(500000))) }

ScenarioClasses ==
    <<"EQUITY", "FIXED_INCOME", "REAL_ESTATE", "COMMODITY",
      "ALTERNATIVE_INVESTMENT">>

\* 20 holdings at 0.05 each, 4 in each of 5 asset classes
EvenPortfolio ==
    [i \in 1..20 |->
        Position(Some("H"), Some("Holding"),
                 Some(ScenarioClasses[((i - 1) % 5) + 1]),
                 Some(Dec5(5000)), Some(Dec3(50000)))]

ScenarioLists ==
    UNION { [1..n -> ScenarioPositions] : n \in 0..MaxLen } \cup {EvenPortfolio}

InitScenarios ==
    /\ holdings \in HoldingsLists \cup ScenarioLists
    /\ analytics = None
    /\ summary = None
    /\ calls = << >>
    /\ TablesCreated

SpecScenarios == InitScenarios /\ [][Next]_vars

---------------------------------------------------------------------------
(* Overlapping getAnalytics invocations.  An invocation is suspended once, *)
(* at `await this.portfolioService.getDetails(...)`; what follows runs to  *)
(* the return without interruption.  The portfolio may gain positions      *)
(* while invocations are in flight.                                        *)

\* The positions the portfolio of this scenario is built from.
CallPositions ==
    { p \in Positions : p.symbol \in {Some("AAPL"), Some("BND")} }

InitCalls ==
    /\ holdings = << >>
    /\ analytics = None
    /\ summary = None
    /\ calls = << >>
    /\ TablesCreated

\* The position provider reports one more position from now on.
OpenPosition ==
    /\ Len(holdings) < MaxLen
    /\ \E p \in CallPositions : holdings' = Append(holdings, p)
    /\ UNCHANGED <<analytics, summary, calls, newsVars>>

\* getAnalytics is entered and awaits getDetails.
CallGetAnalytics ==
    /\ Len(calls) < MaxCalls
    /\ calls' = Append(calls, [pc |-> "awaiting", positions |-> None,
                               response |-> None])
    /\ UNCHANGED <<holdings, analytics, summary, newsVars>>

\* getDetails resolves with the current holdings; getAnalytics computes and
\* returns.
ReturnGetAnalytics ==
    /\ \E i \in 1..Len(calls) :
          /\ calls[i].pc = "awaiting"
          /\ calls' = [calls EXCEPT ![i] =
                          [pc |-> "done", positions |-> Some(holdings),
                           response |-> Some(getAnalytics(holdings))]]
    /\ UNCHANGED <<holdings, analytics, summary, newsVars>>

NextCalls == OpenPosition \/ CallGetAnalytics \/ ReturnGetAnalytics

SpecCalls == InitCalls /\ [][NextCalls]_vars

---------------------------------------------------------------------------
(* IEEE-754 binary64, the arithmetic of a JavaScript number.  A natural    *)
(* number is a sequence of 14-bit limbs, least significant first, without  *)
(* leading zero limbs.  A double x >= 0 is [m, e] with value m * 2^e,      *)
(* where m has exactly 53 bits, or is zero with e = 0.  Every operation    *)
(* computes the exact result and rounds it to nearest, ties to even.  The  *)
(* exponent is unbounded: the magnitudes met here neither overflow nor     *)
(* fall into the subnormal range.                                          *)

LimbBits == 14

RECURSIVE Pow2(_)
Pow2(n) == IF n = 0 THEN 1 ELSE 2 * Pow2(n - 1)

Limb == Pow2(LimbBits)

RECURSIVE IntBitLen(_)
IntBitLen(n) == IF n = 0 THEN 0 ELSE 1 + IntBitLen(n \div 2)

RECURSIVE BnFromInt(_)
BnFromInt(n) == IF n = 0 THEN << >> ELSE <<n % Limb>> \o BnFromInt(n \div Limb)

RECURSIVE BnToInt(_)
BnToInt(a) == IF a = << >> THEN 0 ELSE a[1] + Limb * BnToInt(Tail(a))

RECURSIVE BnTrim(_)
BnTrim(a) ==
    IF a = << >> \/ a[Len(a)] # 0 THEN a
    ELSE BnTrim(SubSeq(a, 1, Len(a) - 1))

BnRest(a) == IF a = << >> THEN << >> ELSE Tail(a)

BnLow(a) == IF a = << >> THEN 0 ELSE a[1]

RECURSIVE BnAddCarry(_, _, _)
BnAddCarry(a, b, c) ==
    IF a = << >> /\ b = << >> THEN BnFromInt(c)
    ELSE LET x == BnLow(a) + BnLow(b) + c
         IN  <<x % Limb>> \o BnAddCarry(BnRest(a), BnRest(b), x \div Limb)

BnAdd(a, b) == BnAddCarry(a, b, 0)

RECURSIVE BnMulSmallCarry(_, _, _)
BnMulSmallCarry(a, k, c) ==
    IF a = << >> THEN BnFromInt(c)
    ELSE LET x == a[1] * k + c
         IN  <<x % Limb>> \o BnMulSmallCarry(Tail(a), k, x \div Limb)

\* a * k for 0 <= k < Limb
BnMulSmall(a, k) == IF k = 0 THEN << >> ELSE BnMulSmallCarry(a, k, 0)

RECURSIVE BnMul(_, _)
BnMul(a, b) ==
    IF a = << >> \/ b = << >> THEN << >>
    ELSE LET high == BnMul(a, Tail(b))
         IN  BnAdd(BnMulSmall(a, b[1]),
                   IF high = << >> THEN << >> ELSE <<0>> \o high)

RECURSIVE BnDivSmallRaw(_, _)
BnDivSmallRaw(a, d) ==
    IF a = << >> THEN [q |-> << >>, r |-> 0]
    ELSE LET high == BnDivSmallRaw(Tail(a), d)
             x    == high.r * Limb + a[1]
         IN  [q |-> <<x \div d>> \o high.q, r |-> x % d]

\* Quotient q and remainder r of a by d, for 0 < d < Limb
BnDivSmall(a, d) ==
    LET raw == BnDivSmallRaw(a, d) IN [q |-> BnTrim(raw.q), r |-> raw.r]

BnBitLen(a) ==
    IF a = << >> THEN 0
    ELSE LimbBits * (Len(a) - 1) + IntBitLen(a[Len(a)])

\* a * 2^n
BnShl(a, n) ==
    IF a = << >> THEN << >>
    ELSE [i \in 1..(n \div LimbBits) |-> 0]
            \o BnMulSmall(a, Pow2(n % LimbBits))

\* floor(a / 2^n)
BnShr(a, n) ==
    IF n \div LimbBits >= Len(a) THEN << >>
    ELSE BnDivSmall(SubSeq(a, n \div LimbBits + 1, Len(a)),
                    Pow2(n % LimbBits)).q

\* a is a multiple of 2^n
BnLowBitsZero(a, n) ==
    /\ \A i \in 1..(n \div LimbBits) : i <= Len(a) => a[i] = 0
    /\ n \div LimbBits < Len(a)
          => a[n \div LimbBits + 1] % Pow2(n % LimbBits) = 0

BnOdd(a) == a # << >> /\ a[1] % 2 = 1

\* a > b
RECURSIVE BnGt(_, _)
BnGt(a, b) ==
    IF Len(a) # Len(b) THEN Len(a) > Len(b)
    ELSE IF a = << >> THEN FALSE
    ELSE IF a[Len(a)] # b[Len(b)] THEN a[Len(a)] > b[Len(b)]
    ELSE BnGt(SubSeq(a, 1, Len(a) - 1), SubSeq(b, 1, Len(b) - 1))

\* The width of the significand of a binary64 number.
Precision == 53

FlZero == [m |-> << >>, e |-> 0]

\* The double nearest to m * 2^e, ties to the even significand.
FlRound(m, e) ==
    IF m = << >> THEN FlZero
    ELSE LET len == BnBitLen(m) IN
         IF len <= Precision
         THEN [m |-> BnShl(m, Precision - len), e |-> e - (Precision - len)]
         ELSE LET n  == len - Precision
                  q  == BnShr(m, n)
                  up == /\ BnOdd(BnShr(m, n - 1))
                        /\ (~BnLowBitsZero(m, n - 1) \/ BnOdd(q))
                  r  == IF up THEN BnAdd(q, <<1>>) ELSE q
              IN  IF BnBitLen(r) > Precision
                  THEN [m |-> BnShr(r, 1), e |-> e + n + 1]
                  ELSE [m |-> r, e |-> e + n]

\* The double of a natural number below 2^31.
FlInt(n) == FlRound(BnFromInt(n), 0)

\* x * y
FlMul(x, y) == FlRound(BnMul(x.m, y.m), x.e + y.e)

\* x + y
FlAdd(x, y) ==
    IF x.m = << >> THEN y
    ELSE IF y.m = << >> THEN x
    ELSE LET e == IF x.e < y.e THEN x.e ELSE y.e
         IN  FlRound(BnAdd(BnShl(x.m, x.e - e), BnShl(y.m, y.e - e)), e)

\* n / d for a natural number n and 0 < d < Limb
FlDivSmall(n, d) ==
    LET x == BnDivSmall(BnShl(BnFromInt(n), 5 * LimbBits), d)
    IN  FlRound(BnAdd(BnShl(x.q, 1), IF x.r = 0 THEN << >> ELSE <<1>>),
                0 - 5 * LimbBits - 1)

\* x > y
FlGt(x, y) ==
    IF x.m = << >> THEN FALSE
    ELSE IF y.m = << >> THEN TRUE
    ELSE x.e > y.e \/ (x.e = y.e /\ BnGt(x.m, y.m))

\* Math.round(x): the integer nearest to x, a tie going up.
FlMathRound(x) ==
    IF x.m = << >> THEN 0
    ELSE IF x.e >= 0 THEN BnToInt(BnShl(x.m, x.e))
    ELSE BnToInt(BnShr(BnAdd(x.m, BnShl(<<1>>, 0 - x.e - 1)), 0 - x.e))

\* The double a number holds whose decimal value is x >= 0: the double
\* nearest to x.
FlFromDec(x) ==
    LET n  == BnAdd(BnMulSmall(BnAdd(BnMulSmall(BnAdd(BnMulSmall(
                  BnFromInt(x[1]), Base), BnFromInt(x[2])), Base),
                  BnFromInt(x[3])), Base), BnFromInt(x[4]))
        d1 == BnDivSmall(BnShl(n, 7 * LimbBits), Base)
        d2 == BnDivSmall(d1.q, Base)
        d3 == BnDivSmall(d2.q, Base)
    IN  FlRound(BnAdd(BnShl(d3.q, 1),
                      IF d1.r = 0 /\ d2.r = 0 /\ d3.r = 0
                      THEN << >> ELSE <<1>>),
                0 - 7 * LimbBits - 1)

\* p.allocationInPercentage ?? 0, as the double the field holds
FlWeight(p) == FlFromDec(Weight(p))

\* positions.reduce((sum, p) => sum + w * w, 0), in binary64 and in the
\* order of the array
RECURSIVE FlSumSquaredWeights(_)
FlSumSquaredWeights(positions) ==
    IF positions = << >> THEN FlZero
    ELSE LET w == FlWeight(positions[Len(positions)])
         IN  FlAdd(FlSumSquaredWeights(SubSeq(positions, 1, Len(positions) - 1)),
                   FlMul(w, w))

\* Math.round(x * 10000) / 10000
FlRound4(x) == FlDivSmall(FlMathRound(FlMul(x, FlInt(10000))), 10000)

\* Math.round(x * 10000) / 100
FlRoundPct(x) == FlDivSmall(FlMathRound(FlMul(x, FlInt(10000))), 100)

\* hhi > 0.25
FlIsHighlyConcentrated(hhi) == FlGt(hhi, FlDivSmall(25, 100))

\* AnalyticsService.computeConcentrationRisk in binary64
FlComputeConcentrationRisk(positions) ==
    IF Len(positions) = 0
    THEN [topHoldingSymbol |-> "", topHoldingName |-> "",
          topHoldingWeight |-> FlZero, herfindahlIndex |-> FlZero,
          isHighlyConcentrated |-> FALSE]
    ELSE LET sorted == SortPositions(positions)
             top    == sorted[1]
             hhi    == FlSumSquaredWeights(positions)
         IN  [topHoldingSymbol |-> Coalesce(top.symbol, ""),
              topHoldingName |-> Coalesce(top.name, Coalesce(top.symbol, "")),
              topHoldingWeight |-> FlWeight(top),
              herfindahlIndex |-> FlRound4(hhi),
              isHighlyConcentrated |-> FlIsHighlyConcentrated(hhi)]

\* AiService.computeConcentration in binary64
FlAiComputeConcentration(positions) ==
    IF Len(positions) = 0
    THEN [topHoldingSymbol |-> "", topHoldingName |-> "",
          topHoldingWeight |-> FlZero, herfindahlIndex |-> FlZero,
          isHighlyConcentrated |-> FALSE]
    ELSE LET sorted == SortPositions(positions)
             top    == sorted[1]
             hhi    == FlSumSquaredWeights(positions)
         IN  [topHoldingSymbol |-> Coalesce(top.symbol, ""),
              topHoldingName |-> Coalesce(top.name, Coalesce(top.symbol, "")),
              topHoldingWeight |-> FlRoundPct(FlWeight(top)),
              herfindahlIndex |-> FlRound4(hhi),
              isHighlyConcentrated |-> FlIsHighlyConcentrated(hhi)]

\* The positions of the binary64 scenario: a portfolio of three positions
\* whose fractions sum to 1, and a position without allocation.
FloatPositions ==
    { Position(Some("VT"), Some("World"), Some("EQUITY"),
               Some(Dec3(750)), Some(Dec3(750000))),
      Position(Some("AGG"), Some("Aggregate Bonds"), Some("FIXED_INCOME"),
               Some(Dec3(245)), Some(Dec3(245000))),
      Position(Some("CHF"), None, Some("LIQUIDITY"),
               Some(Dec3(5)), Some(Dec3(5000))),
      Position(Some("XAU"), Some("Gold"), None, None, Some(Dec3(4))) }

InitFloat ==
    /\ holdings \in UNION { [1..n -> FloatPositions] : n \in 0..MaxLen }
    /\ analytics = None
    /\ summary = None
    /\ calls = << >>
    /\ TablesCreated

\* AnalyticsService.getAnalytics, the concentration result
GetAnalyticsFloat ==
    /\ analytics' =
          Some([concentrationRisk |-> FlComputeConcentrationRisk(holdings)])
    /\ UNCHANGED <<holdings, summary, calls, newsVars>>

\* AiService.getSummary, the concentration result: the positions are sorted
\* in place before computeConcentration reads them
GetSummaryFloat ==
    /\ summary' =
          Some([concentration |->
                   FlAiComputeConcentration(SortPositions(holdings))])
    /\ UNCHANGED <<holdings, analytics, calls, newsVars>>

NextFloat == GetAnalyticsFloat \/ GetSummaryFloat

SpecFloat == InitFloat /\ [][NextFloat]_vars

---------------------------------------------------------------------------
(* Properties.  A (S) is the response getAnalytics (getSummary) returned   *)
(* for the current holdings.                                               *)

A == analytics[1]

S == summary[1]

BothReturned == analytics # None /\ summary # None

\* |x - y|
DAbsDiff(x, y) == IF DLt(x, y) THEN DSub(y, x) ELSE DSub(x, y)

\* The sum of the holdings' allocation fractions, an absent one taken as 0.
RECURSIVE SumFractions(_)
SumFractions(positions) ==
    IF positions = << >> THEN DInt(0)
    ELSE DAdd(SumFractions(SubSeq(positions, 1, Len(positions) - 1)),
              Weight(positions[Len(positions)]))

\* The sum of the weights of the entries of an allocation list.
RECURSIVE SumEntryWeights(_)
SumEntryWeights(allocation) ==
    IF allocation = << >> THEN DInt(0)
    ELSE DAdd(SumEntryWeights(SubSeq(allocation, 1, Len(allocation) - 1)),
              allocation[Len(allocation)].weight)

\* The rounding error of the allocation list of getAnalytics.
AllocationError == DAbsDiff(SumEntryWeights(A.assetAllocation),
                            SumFractions(holdings))

\* 0.0001 and 0.00005
Tolerance4 == DFrac(1, 10000)

HalfUnit4 == DShift(DFrac(5, 10))

\* C1: the diversification score of either service lies in 0..100 for
\* every holdings list, also when the fractions do not sum to 1.
C1_ScoreBounds ==
    /\ analytics # None => A.diversification.score \in 0..100
    /\ summary # None => S.diversification.score \in 0..100

\* C2: in every concentration result, isHighlyConcentrated is true exactly
\* when the returned (rounded) herfindahlIndex is greater than 0.25.
C2_FlagMatchesReportedIndex ==
    /\ analytics # None =>
          (A.concentrationRisk.isHighlyConcentrated
              <=> DGt(A.concentrationRisk.herfindahlIndex, DFrac(25, 100)))
    /\ summary # None =>
          (S.concentration.isHighlyConcentrated
              <=> DGt(S.concentration.herfindahlIndex, DFrac(25, 100)))

\* Every allocation fraction of the holdings (absent: 0) lies in [0,1].
FractionsInUnitInterval ==
    \A i \in 1..Len(holdings) :
        DLe(DInt(0), Weight(holdings[i])) /\ DLe(Weight(holdings[i]), DInt(1))

HerfindahlInUnitInterval ==
    /\ DLe(DInt(0), A.concentrationRisk.herfindahlIndex)
    /\ DLe(A.concentrationRisk.herfindahlIndex, DInt(1))

C4_AllocationConservation ==
    analytics # None => DLe(AllocationError, Tolerance4)

\* C4 amended: the two sums differ by at most 0.5e-4 for each allocation
\* entry, that is by at most k * 0.5e-4 for k distinct asset classes.
C4_ConservationPerEntry ==
    analytics # None =>
        DLe(AllocationError, DScale(HalfUnit4, Len(A.assetAllocation)))

\* Three asset classes were aggregated and their rounding errors add up to
\* more than 1e-4.
C4_Witness ==
    /\ analytics # None
    /\ Len(A.assetAllocation) >= 3
    /\ DGt(AllocationError, Tolerance4)

\* 0.01 percentage points: one unit of the fourth decimal of a fraction.
PctTolerance == DFrac(1, 100)

\* C5: every weight of the percentage-scaled summary (each asset class
\* weight, the top holding weight, the top asset class weight) is the value
\* of the fraction-weighted analytics response times 100, within one unit
\* of the fraction's fourth decimal (0.01 percentage points).
C5_PercentageRoundTrip ==
    BothReturned =>
        /\ { e.assetClass : e \in { S.assetAllocation[i] :
                                      i \in 1..Len(S.assetAllocation) } }
           = { e.assetClass : e \in { A.assetAllocation[i] :
                                        i \in 1..Len(A.assetAllocation) } }
        /\ \A i \in 1..Len(S.assetAllocation) :
             \A j \in 1..Len(A.assetAllocation) :
                S.assetAllocation[i].assetClass = A.assetAllocation[j].assetClass
                => DLe(DAbsDiff(S.assetAllocation[i].weight,
                                DScale(A.assetAllocation[j].weight, 100)),
                       PctTolerance)
        /\ DLe(DAbsDiff(S.concentration.topHoldingWeight,
                        DScale(A.concentrationRisk.topHoldingWeight, 100)),
               PctTolerance)
        /\ DLe(DAbsDiff(S.diversification.topAssetClassWeight,
                        DScale(A.diversification.topAssetClassWeight, 100)),
               PctTolerance)

\* Both shapes were computed for holdings of two asset classes whose top
\* holding weight is changed by the rounding of the summary.
C5_Witness ==
    /\ BothReturned
    /\ Len(A.assetAllocation) >= 2
    /\ S.concentration.topHoldingWeight
          # DScale(A.concentrationRisk.topHoldingWeight, 100)
    /\ DGt(S.concentration.topHoldingWeight, DInt(0))

\* C6: getAnalytics and getSummary report, for the same holdings, the same
\* herfindahlIndex and the same isHighlyConcentrated flag (computed as the
\* services compute them, in binary64).
C6_SameConcentration ==
    BothReturned =>
        /\ S.concentration.herfindahlIndex = A.concentrationRisk.herfindahlIndex
        /\ S.concentration.isHighlyConcentrated
              = A.concentrationRisk.isHighlyConcentrated

\* C7: the same insight rules fire in both response shapes, so both
\* insight lists have the same length and the same rule at each position.
C7_SameRulesFire ==
    BothReturned => Rules(S.insights) = Rules(A.insights)

\* C9: for the empty holdings list the diversification score is 0.
C9_EmptyScoreZero ==
    /\ (holdings = << >> /\ analytics # None) => A.diversification.score = 0
    /\ (holdings = << >> /\ summary # None) => S.diversification.score = 0

\* The rules of `rules` that wrote a message of the insight list.
Fired(insights, rules) ==
    SelectSeq(Rules(insights), LAMBDA r : r \in rules)

\* C10: for the empty holdings list the concentration result is the neutral
\* value, the allocation list is empty, and the insight list holds exactly
\* one diversification message, the "low" one, and no concentration message.
C10_EmptyPortfolio ==
    (holdings = << >> /\ analytics # None) =>
        /\ A.concentrationRisk =
              [topHoldingSymbol |-> "", topHoldingName |-> "",
               topHoldingWeight |-> DInt(0), herfindahlIndex |-> DInt(0),
               isHighlyConcentrated |-> FALSE]
        /\ A.assetAllocation = << >>
        /\ Fired(A.insights, DiversificationRules) = <<"LowDiversification">>
        /\ Fired(A.insights, ConcentrationRules) = << >>

\* getAnalytics returned for the empty holdings list.
C10_Witness == holdings = << >> /\ analytics # None

---------------------------------------------------------------------------
(* Score, ordering and message rules.                                      *)

\* The allocation entries that count as asset classes, as indices.
CountedEntries(allocation) ==
    { i \in 1..Len(allocation) :
        allocation[i].assetClass \notin {"LIQUIDITY", "UNKNOWN"} }

\* The sum of the squared weights of the first n entries that count.
RECURSIVE ClassHHI(_, _)
ClassHHI(allocation, n) ==
    IF n = 0 THEN DInt(0)
    ELSE DAdd(ClassHHI(allocation, n - 1),
              IF n \in CountedEntries(allocation)
              THEN DMul(allocation[n].weight, allocation[n].weight)
              ELSE DInt(0))

\* round(min(min(n/20,1)*40 + min(k/5,1)*30 + (1 - classHHI)*30, 100))
ScoreFormula(n, k, classHHI) ==
    MathRound(DMin(
        DAdd(DAdd(DScale(DMin(DFrac(n, 20), DInt(1)), 40),
                  DScale(DMin(DFrac(k, 5), DInt(1)), 30)),
             DScale(DSub(DInt(1), classHHI), 30)),
        DInt(100)))

NonLiquidityHoldings ==
    Cardinality({ i \in 1..Len(holdings) :
                    holdings[i].assetClass # Some("LIQUIDITY") })

\* C11: when the counted class weights have classHHI <= 1, the score is
\* round(min(min(n/20,1)*40 + min(k/5,1)*30 + (1 - classHHI)*30, 100)),
\* with n the holdings outside LIQUIDITY, k the allocation entries other
\* than LIQUIDITY and UNKNOWN and classHHI the sum of their squared
\* weights; one EQUITY holding at 1.0 scores 8, and 20 holdings at 0.05,
\* 4 in each of 5 classes, score 94.
C11_ScoreFormula ==
    analytics # None =>
        LET classHHI == ClassHHI(A.assetAllocation, Len(A.assetAllocation))
        IN  /\ DLe(classHHI, DInt(1)) =>
                  A.diversification.score
                     = ScoreFormula(NonLiquidityHoldings,
                                    Cardinality(CountedEntries(A.assetAllocation)),
                                    classHHI)
            /\ (/\ Len(holdings) = 1
                /\ holdings[1].assetClass = Some("EQUITY")
                /\ Weight(holdings[1]) = DInt(1))
               => A.diversification.score = 8
            /\ holdings = EvenPortfolio => A.diversification.score = 94

\* The even 20-holding portfolio was scored.
C11_Witness ==
    /\ analytics # None
    /\ holdings = EvenPortfolio
    /\ A.diversification.holdingsCount = 20
    /\ A.diversification.assetClassCount = 5

\* The position of a rule in the order the blocks of generateInsights run.
RuleRank(rule) ==
    IF rule \in ConcentrationRules THEN 1
    ELSE IF rule \in DiversificationRules THEN 2
    ELSE IF rule = "EquityOverweight" THEN 3
    ELSE 4

InRuleOrder(insights) ==
    \A i, j \in 1..Len(insights) :
        i < j => RuleRank(insights[i].rule) < RuleRank(insights[j].rule)

\* The sum of the fractions of the first n holdings of class cls.
RECURSIVE ClassFractionSum(_, _)
ClassFractionSum(cls, n) ==
    IF n = 0 THEN DInt(0)
    ELSE DAdd(ClassFractionSum(cls, n - 1),
              IF Coalesce(holdings[n].assetClass, "UNKNOWN") = cls
              THEN Weight(holdings[n])
              ELSE DInt(0))

HasClass(cls) ==
    \E i \in 1..Len(holdings) :
        Coalesce(holdings[i].assetClass, "UNKNOWN") = cls

\* Message i of the list is of rule r.
RuleAt(insights, r) == { i \in 1..Len(insights) : insights[i].rule = r }

EquityBeforeFixedIncome(insights) ==
    /\ RuleAt(insights, "EquityOverweight") # {}
    /\ RuleAt(insights, "NoFixedIncome") # {}
    /\ \A i \in RuleAt(insights, "EquityOverweight") :
          \A j \in RuleAt(insights, "NoFixedIncome") : i < j

EquityNinetyNoFixedIncome ==
    /\ ClassFractionSum("EQUITY", Len(holdings)) = DFrac(9, 10)
    /\ ~HasClass("FIXED_INCOME")

\* C12: the messages of both services appear in the order concentration,
\* diversification, equity overweight, fixed-income absence; with an EQUITY
\* weight of 0.9 and no FIXED_INCOME holding both warnings are present, the
\* equity warning first.
C12_MessageOrder ==
    /\ analytics # None =>
          /\ InRuleOrder(A.insights)
          /\ EquityNinetyNoFixedIncome => EquityBeforeFixedIncome(A.insights)
    /\ summary # None =>
          /\ InRuleOrder(S.insights)
          /\ EquityNinetyNoFixedIncome => EquityBeforeFixedIncome(S.insights)

\* Both services answered for the single EQUITY holding at 0.9.
C12_Witness ==
    /\ BothReturned
    /\ EquityNinetyNoFixedIncome
    /\ Rules(A.insights) = <<"HighConcentration", "LowDiversification",
                              "EquityOverweight", "NoFixedIncome">>
    /\ Rules(S.insights) = Rules(A.insights)

\* The holding with every absent field replaced by the value the claim
\* names for it.
WithDefaults(p) ==
    Position(Some(Coalesce(p.symbol, "")),
             Some(Coalesce(p.name, Coalesce(p.symbol, ""))),
             Some(Coalesce(p.assetClass, "UNKNOWN")),
             Some(Coalesce(p.allocationInPercentage, DInt(0))),
             Some(Coalesce(p.valueInBaseCurrency, DInt(0))))

DefaultedHoldings == [i \in 1..Len(holdings) |-> WithDefaults(holdings[i])]

\* C13: whichever of symbol, name, assetClass, allocation fraction and
\* valueInBaseCurrency are absent, the result returned is the result of
\* the list with 0 for an absent number, UNKNOWN for an absent class, the
\* symbol for an absent name and "" for an absent symbol.
C13_AbsentFieldsDefaulted ==
    /\ analytics # None => A = getAnalytics(DefaultedHoldings)
    /\ summary # None => S = getSummary(DefaultedHoldings)

\* A holding without symbol, name and value leads a list that also holds
\* one without class and fraction.
C13_Witness ==
    /\ BothReturned
    /\ Len(holdings) = 2
    /\ holdings[1].symbol = None /\ holdings[1].name = None
    /\ holdings[1].valueInBaseCurrency = None
    /\ holdings[2].assetClass = None
    /\ holdings[2].allocationInPercentage = None
    /\ A.concentrationRisk.topHoldingName = ""
    /\ A.concentrationRisk.topHoldingSymbol = ""
    /\ \E i \in 1..Len(A.assetAllocation) :
          /\ A.assetAllocation[i].assetClass = "UNKNOWN"
          /\ A.assetAllocation[i].weight = DInt(0)
    /\ S.holdings[1].symbol = "" /\ S.holdings[2].assetClass = "UNKNOWN"

\* The largest allocation fraction of the holdings, absent read as 0; 0 for
\* the empty list.
TopFraction ==
    IF holdings = << >> THEN DInt(0)
    ELSE LET i == CHOOSE i \in 1..Len(holdings) :
                      \A j \in 1..Len(holdings) :
                          ~DLt(Weight(holdings[i]), Weight(holdings[j]))
         IN  Weight(holdings[i])

\* The rules of the concentration messages of an insight list, in order.
ConcentrationMessages(insights) ==
    Rules(SelectSeq(insights, LAMBDA m : m.rule \in ConcentrationRules))

ExpectedConcentrationMessages(isHighlyConcentrated) ==
    IF isHighlyConcentrated THEN <<"HighConcentration">>
    ELSE IF DGt(TopFraction, DFrac(15, 100)) THEN <<"ModerateConcentration">>
    ELSE << >>

\* C14: in both services the concentration messages are the high one alone
\* when isHighlyConcentrated, else the moderate one alone when the top
\* holding's allocation fraction is > 0.15, else none.
C14_ConcentrationMessage ==
    /\ analytics # None =>
          ConcentrationMessages(A.insights)
            = ExpectedConcentrationMessages(
                  A.concentrationRisk.isHighlyConcentrated)
    /\ summary # None =>
          ConcentrationMessages(S.insights)
            = ExpectedConcentrationMessages(S.concentration.isHighlyConcentrated)

\* The rules of the diversification messages of an insight list, in order.
DiversificationMessages(insights) ==
    Rules(SelectSeq(insights, LAMBDA m : m.rule \in DiversificationRules))

ScoreBand(score) ==
    IF score >= 70 THEN "GoodDiversification"
    ELSE IF score >= 40 THEN "ModerateDiversification"
    ELSE "LowDiversification"

\* C15: every insight list holds exactly one diversification message: the
\* good one for a score >= 70, the moderate one for 40 <= score < 70, the
\* low one for a score < 40, whatever the other rules emit.
C15_OneDiversificationMessage ==
    /\ analytics # None =>
          DiversificationMessages(A.insights)
            = <<ScoreBand(A.diversification.score)>>
    /\ summary # None =>
          DiversificationMessages(S.insights)
            = <<ScoreBand(S.diversification.score)>>

\* Both services rated a list "low" next to a concentration message and
\* two warnings.
C15_Witness ==
    /\ BothReturned
    /\ Len(A.insights) = 4 /\ Len(S.insights) = 4
    /\ DiversificationMessages(A.insights) = <<"LowDiversification">>
    /\ DiversificationMessages(S.insights) = <<"LowDiversification">>

\* The first holding of the input list whose fraction no other exceeds.
FirstMaximal ==
    CHOOSE i \in 1..Len(holdings) :
        /\ \A j \in 1..Len(holdings) :
              ~DLt(Weight(holdings[i]), Weight(holdings[j]))
        /\ \A j \in 1..(i - 1) :
              DLt(Weight(holdings[j]), Weight(holdings[i]))

\* C16: for a non-empty list the reported top holding is the holding of
\* maximal allocation fraction (absent read as 0), and of several with that
\* fraction the one that comes first in the input list.
C16_TopHolding ==
    holdings # << >> =>
        LET top == holdings[FirstMaximal]
        IN  /\ analytics # None =>
                  /\ A.concentrationRisk.topHoldingSymbol
                        = Coalesce(top.symbol, "")
                  /\ A.concentrationRisk.topHoldingName
                        = Coalesce(top.name, Coalesce(top.symbol, ""))
                  /\ A.concentrationRisk.topHoldingWeight = Weight(top)
            /\ summary # None =>
                  /\ S.concentration.topHoldingSymbol
                        = Coalesce(top.symbol, "")
                  /\ S.concentration.topHoldingName
                        = Coalesce(top.name, Coalesce(top.symbol, ""))
                  /\ S.concentration.topHoldingWeight = RoundPct(Weight(top))

\* Two holdings of different symbols share the largest fraction, after a
\* smaller one; both services answered.
C16_Witness ==
    /\ BothReturned
    /\ Len(holdings) = 3
    /\ DLt(Weight(holdings[1]), Weight(holdings[2]))
    /\ Weight(holdings[2]) = Weight(holdings[3])
    /\ holdings[2].symbol # holdings[3].symbol
    /\ A.concentrationRisk.topHoldingSymbol = Coalesce(holdings[2].symbol, "")
    /\ S.concentration.topHoldingSymbol = Coalesce(holdings[2].symbol, "")

\* The asset classes of the holdings, an absent class read as UNKNOWN.
ClassOf(p) == Coalesce(p.assetClass, "UNKNOWN")

ClassesPresent == { ClassOf(holdings[i]) : i \in 1..Len(holdings) }

\* The place of the first holding of class cls in the input list.
FirstHoldingOf(cls) ==
    CHOOSE i \in 1..Len(holdings) :
        /\ ClassOf(holdings[i]) = cls
        /\ \A j \in 1..(i - 1) : ClassOf(holdings[j]) # cls

\* One entry per class present, by descending sum of the class's fractions,
\* equal sums by the first holding of the class in the input list.
AllocationInOrder(allocation) ==
    /\ Len(allocation) = Cardinality(ClassesPresent)
    /\ { allocation[i].assetClass : i \in 1..Len(allocation) } = ClassesPresent
    /\ \A i, j \in 1..Len(allocation) :
          i < j =>
            LET wi == ClassFractionSum(allocation[i].assetClass, Len(holdings))
                wj == ClassFractionSum(allocation[j].assetClass, Len(holdings))
            IN  /\ ~DLt(wi, wj)
                /\ wi = wj => FirstHoldingOf(allocation[i].assetClass)
                                 < FirstHoldingOf(allocation[j].assetClass)

\* C17: the allocation of both services has one entry per asset class
\* present (absent read as UNKNOWN), by descending aggregated weight, equal
\* weights by the first holding of the class in the input list; both
\* services report the same topAssetClass.
C17_AllocationOrder ==
    /\ analytics # None => AllocationInOrder(A.assetAllocation)
    /\ summary # None => AllocationInOrder(S.assetAllocation)
    /\ BothReturned =>
          A.diversification.topAssetClass = S.diversification.topAssetClass

Emitted(insights, rule) == RuleAt(insights, rule) # {}

\* C18: the equity warning is emitted exactly when an EQUITY entry exists
\* and the EQUITY holdings' fractions sum to more than 0.8, the fixed-income
\* warning exactly when there is no FIXED_INCOME entry or the FIXED_INCOME
\* holdings' fractions sum to less than 0.05; the diversification message
\* before them stays.
C18_WarningsOnAggregatedFraction ==
    analytics # None =>
        /\ Emitted(A.insights, "EquityOverweight")
              <=> (/\ FindClass(A.assetAllocation, "EQUITY") # << >>
                   /\ DGt(ClassFractionSum("EQUITY", Len(holdings)),
                          DFrac(8, 10)))
        /\ Emitted(A.insights, "NoFixedIncome")
              <=> (\/ FindClass(A.assetAllocation, "FIXED_INCOME") = << >>
                   \/ DLt(ClassFractionSum("FIXED_INCOME", Len(holdings)),
                          DFrac(5, 100)))
        /\ Len(DiversificationMessages(A.insights)) = 1

---------------------------------------------------------------------------
(* NewsService: the article cache of getNewsForSymbol.                     *)
(*                                                                         *)
(* A row of news_articles is its key (symbol, url) and fetched_at; the     *)
(* other columns are copied through and decide nothing.  A fetched list is *)
(* the set of its urls: ON CONFLICT (symbol, url) DO NOTHING makes the     *)
(* table after the insert loop independent of the order of the list.       *)
(* The clock counts ticks of half an hour.                                 *)

\* INTERVAL '1 hour', in ticks.
Hour == 2

\* The last tick of the clock.
MaxTime == 3

\* The symbol query parameters of GET /api/v1/news.
Symbols == {"AAPL", "aapl"}

\* symbol.toUpperCase()
toUpperCase(symbol) == IF symbol = "aapl" THEN "AAPL" ELSE symbol

\* The urls of the articles Finnhub has for a symbol.
Urls == {"u1", "u2"}

\* SELECT * FROM news_articles
\*  WHERE symbol = $1 AND fetched_at > NOW() - INTERVAL '1 hour'
Cached(symbol) ==
    { r \in newsArticles : r.symbol = symbol /\ r.fetched_at > now - Hour }

\* The for loop of INSERT INTO news_articles ... ON CONFLICT (symbol, url)
\* DO NOTHING; fetched_at is DEFAULT NOW().
InsertArticles(symbol, urls) ==
    newsArticles \cup
        { [symbol |-> symbol, url |-> u, fetched_at |-> now] :
            u \in { v \in urls :
                      ~\E r \in newsArticles : r.symbol = symbol /\ r.url = v } }

InitNews ==
    /\ holdings = << >>
    /\ analytics = None
    /\ summary = None
    /\ calls = << >>
    /\ TablesCreated

\* getNewsForSymbol is entered; after: the invocations that had returned.
CallGetNewsForSymbol ==
    /\ Len(calls) < MaxCalls
    /\ \E symbol \in Symbols :
          calls' = Append(calls,
                     [op |-> "getNewsForSymbol", pc |-> "query",
                      symbol |-> toUpperCase(symbol),
                      after |-> { i \in 1..Len(calls) : calls[i].pc = "done" },
                      queriedAt |-> None, finnhub |-> FALSE,
                      articles |-> {}, persistedAt |-> None])
    /\ UNCHANGED <<holdings, analytics, summary, newsVars>>

\* The cache query resolves: a non-empty result is returned, an empty one
\* leads on to Finnhub.
QueryCache ==
    /\ \E i \in 1..Len(calls) :
          /\ calls[i].pc = "query"
          /\ LET cached == Cached(calls[i].symbol)
             IN  calls' = [calls EXCEPT ![i] =
                    [@ EXCEPT !.queriedAt = Some(now),
                              !.pc = IF cached # {} THEN "done" ELSE "fetch",
                              !.articles = { r.url : r \in cached }]]
    /\ UNCHANGED <<holdings, analytics, summary, newsVars>>

\* fetchFromFinnhub resolves with the articles of the last week, or with []
\* (no API key, an HTTP error, a failed fetch, no news).
FetchFromFinnhub ==
    /\ \E i \in 1..Len(calls) :
          /\ calls[i].pc = "fetch"
          /\ \E urls \in SUBSET Urls :
                calls' = [calls EXCEPT ![i] =
                    [@ EXCEPT !.finnhub = TRUE, !.articles = urls,
                              !.pc = "persist"]]
    /\ UNCHANGED <<holdings, analytics, summary, newsVars>>

\* The insert loop runs and getNewsForSymbol returns the fetched articles.
PersistArticles ==
    /\ \E i \in 1..Len(calls) :
          /\ calls[i].pc = "persist"
          /\ newsArticles' = InsertArticles(calls[i].symbol, calls[i].articles)
          /\ calls' = [calls EXCEPT ![i] =
                    [@ EXCEPT !.persistedAt = Some(now), !.pc = "done"]]
    /\ UNCHANGED <<holdings, analytics, summary, newsAlerts, now>>

\* Half an hour passes.
Tick ==
    /\ now < MaxTime
    /\ now' = now + 1
    /\ UNCHANGED <<holdings, analytics, summary, calls, newsArticles,
                   newsAlerts>>

NextNews ==
    \/ CallGetNewsForSymbol
    \/ QueryCache
    \/ FetchFromFinnhub
    \/ PersistArticles
    \/ Tick

SpecNews == InitNews /\ [][NextNews]_vars

\* C19: once a getNewsForSymbol(S) call has fetched a non-empty list from
\* Finnhub and persisted it, a later call for S whose cache query runs less
\* than an hour after that does not call Finnhub, also when the fetched
\* articles were rows older than an hour already.
C19_ServedFromCache ==
    \A j \in 1..Len(calls) :
        \A i \in calls[j].after :
            (/\ calls[i].symbol = calls[j].symbol
             /\ calls[i].finnhub
             /\ calls[i].articles # {}
             /\ calls[i].persistedAt # None
             /\ calls[j].queriedAt # None
             /\ calls[j].queriedAt[1] - calls[i].persistedAt[1] < Hour)
            => ~calls[j].finnhub

---------------------------------------------------------------------------
(* NewsService: the alerts.                                                *)
(*                                                                         *)
(* A row of news_alerts is id, user_id, symbol, keywords and is_active;    *)
(* created_at and updated_at are written with NOW() and decide nothing     *)
(* but the order of listAlerts, which is returned here as a set.  The id   *)
(* gen_random_uuid() draws is the number of the insert.  Every statement   *)
(* is one step of the database; updateAlert runs two, a SELECT and an      *)
(* UPDATE, with an await between them.                                     *)

\* request.user.id
Users == {"u1", "u2"}

\* The :id parameters of PATCH and DELETE /api/v1/news/alerts/:id.
AlertIds == {1, 2}

\* dto.keywords of POST /api/v1/news/alerts.
KeywordInputs == {Some(""), Some("earnings")}

\* keywords || null
OrNull(keywords) ==
    IF keywords = None \/ keywords = Some("") THEN None ELSE keywords

\* UpdateAlertDto bodies: only keywords, or only isActive.
UpdateData ==
    { [keywords |-> Some("guidance"), isActive |-> None],
      [keywords |-> None, isActive |-> Some(FALSE)] }

\* The statements matching on the id alone: WHERE id = $1
Matching_AnyUser(alertId, userId) ==
    { r \in newsAlerts : r.id = alertId }

\* WHERE id = $1 AND user_id = $2
Matching(alertId, userId) ==
    { r \in newsAlerts : r.id = alertId /\ r.user_id = userId }

AlertCall(op, pc, alertId, userId, data, current, response) ==
    [op |-> op, pc |-> pc, alertId |-> alertId, userId |-> userId,
     data |-> data, current |-> current, response |-> response]

InitAlerts ==
    /\ holdings = << >>
    /\ analytics = None
    /\ summary = None
    /\ calls = << >>
    /\ TablesCreated

\* POST /api/v1/news/alerts with a symbol: INSERT ... RETURNING *
CreateAlert ==
    /\ Len(calls) < MaxCalls
    /\ \E userId \in Users, symbol \in Symbols, keywords \in KeywordInputs :
          LET id  == 1 + Cardinality({ i \in 1..Len(calls) :
                                         calls[i].op = "createAlert" })
              row == [id |-> id, user_id |-> userId,
                      symbol |-> toUpperCase(symbol),
                      keywords |-> OrNull(keywords), is_active |-> TRUE]
          IN  /\ newsAlerts' = newsAlerts \cup {row}
              /\ calls' = Append(calls,
                     AlertCall("createAlert", "done", id, userId, None, None,
                               Some(row)))
    /\ UNCHANGED <<holdings, analytics, summary, newsArticles, now>>

\* GET /api/v1/news/alerts
ListAlerts ==
    /\ Len(calls) < MaxCalls
    /\ \E userId \in Users :
          calls' = Append(calls,
                     AlertCall("listAlerts", "done", 0, userId, None, None,
                               Some({ r \in newsAlerts : r.user_id = userId })))
    /\ UNCHANGED <<holdings, analytics, summary, newsVars>>

\* PATCH /api/v1/news/alerts/:id is entered.
CallUpdateAlert ==
    /\ Len(calls) < MaxCalls
    /\ \E alertId \in AlertIds, userId \in Users, data \in UpdateData :
          calls' = Append(calls,
                     AlertCall("updateAlert", "read", alertId, userId,
                               Some(data), None, None))
    /\ UNCHANGED <<holdings, analytics, summary, newsVars>>

\* The SELECT of updateAlert resolves: no row returns null (404), a row is
\* kept as current.
ReadAlert ==
    /\ \E i \in 1..Len(calls) :
          /\ calls[i].pc = "read"
          /\ LET existing == Matching(calls[i].alertId, calls[i].userId)
             IN  calls' = [calls EXCEPT ![i] =
                    IF existing = {}
                    THEN [@ EXCEPT !.pc = "done"]
                    ELSE [@ EXCEPT !.pc = "write",
                                   !.current = Some(CHOOSE r \in existing : TRUE)]]
    /\ UNCHANGED <<holdings, analytics, summary, newsVars>>

\* The UPDATE of updateAlert runs with the values computed from data and
\* current, and updateAlert returns updated[0] || null.
WriteAlert ==
    /\ \E i \in 1..Len(calls) :
          /\ calls[i].pc = "write"
          /\ LET data    == calls[i].data[1]
                 current == calls[i].current[1]
                 newKeywords == IF data.keywords # None THEN data.keywords
                                ELSE current.keywords
                 newIsActive == IF data.isActive # None THEN data.isActive[1]
                                ELSE current.is_active
                 target  == Matching(calls[i].alertId, calls[i].userId)
                 Updated(r) == [r EXCEPT !.keywords = newKeywords,
                                         !.is_active = newIsActive]
             IN  /\ newsAlerts' = (newsAlerts \ target)
                                    \cup { Updated(r) : r \in target }
                 /\ calls' = [calls EXCEPT ![i] =
                        [@ EXCEPT !.pc = "done",
                                  !.response =
                                      IF target = {} THEN None
                                      ELSE Some(Updated(CHOOSE r \in target : TRUE))]]
    /\ UNCHANGED <<holdings, analytics, summary, newsArticles, now>>

\* DELETE /api/v1/news/alerts/:id
DeleteAlert ==
    /\ Len(calls) < MaxCalls
    /\ \E alertId \in AlertIds, userId \in Users :
          /\ newsAlerts' = newsAlerts \ Matching(alertId, userId)
          /\ calls' = Append(calls,
                     AlertCall("deleteAlert", "done", alertId, userId, None, None,
                               Some(Matching(alertId, userId) # {})))
    /\ UNCHANGED <<holdings, analytics, summary, newsArticles, now>>

NextAlerts ==
    \/ CreateAlert
    \/ ListAlerts
    \/ CallUpdateAlert
    \/ ReadAlert
    \/ WriteAlert
    \/ DeleteAlert

SpecAlerts == InitAlerts /\ [][NextAlerts]_vars

\* Invocation i of updateAlert returned an updated row.
ReturnedUpdated(i) ==
    /\ calls[i].op = "updateAlert"
    /\ calls[i].pc = "done"
    /\ calls[i].response # None

\* C20: when two updateAlert calls on one alert of one user, one with only
\* keywords and one with only isActive, have both completed and nothing
\* else wrote the alert, the stored alert carries the keywords of the one
\* and the isActive of the other, whatever the order of their steps.
C20_BothUpdatesStored ==
    \A i, j \in 1..Len(calls) :
        (/\ ReturnedUpdated(i) /\ ReturnedUpdated(j)
         /\ calls[i].alertId = calls[j].alertId
         /\ calls[i].userId = calls[j].userId
         /\ calls[i].data[1].keywords # None
         /\ calls[j].data[1].isActive # None
         /\ \A k \in 1..Len(calls) :
               k \notin {i, j} => calls[k].op \in {"createAlert", "listAlerts"})
        => \E r \in Matching(calls[i].alertId, calls[i].userId) :
              /\ r.keywords = calls[i].data[1].keywords
              /\ r.is_active = calls[j].data[1].isActive[1]

\* User userId owns a stored alert of id alertId.
Owns(userId, alertId) ==
    \E r \in newsAlerts : r.id = alertId /\ r.user_id = userId

\* The rows an invocation has returned or holds belong to its caller.
ReturnsOwnAlerts ==
    \A i \in 1..Len(calls) :
        /\ (calls[i].op \in {"createAlert", "updateAlert"}
            /\ calls[i].response # None)
           => calls[i].response[1].user_id = calls[i].userId
        /\ calls[i].op = "listAlerts"
           => \A r \in calls[i].response[1] : r.user_id = calls[i].userId
        /\ calls[i].current # None
           => calls[i].current[1].user_id = calls[i].userId

\* The invocation that took the step: the one entered or moved on by it.
Actor ==
    CHOOSE i \in 1..Len(calls') : i > Len(calls) \/ calls'[i] # calls[i]

\* A step touches only rows of its caller; an update or delete aimed at an
\* alert the caller does not own answers null / false and writes nothing.
TouchesOwnAlerts ==
    LET c == calls'[Actor]
        entered  == Actor > Len(calls)
        notOwned == ~Owns(c.userId, c.alertId)
    IN  /\ \A r \in (newsAlerts \ newsAlerts') \cup (newsAlerts' \ newsAlerts) :
              r.user_id = c.userId
        /\ (c.op = "updateAlert" /\ ~entered /\ notOwned)
           => /\ c.pc = "done"
              /\ c.response = None
              /\ newsAlerts' = newsAlerts
        /\ (c.op = "deleteAlert" /\ notOwned)
           => /\ c.response = Some(FALSE)
              /\ newsAlerts' = newsAlerts

\* C21: whatever createAlert, listAlerts, updateAlert and deleteAlert calls
\* the users make, a call by user U returns, changes and deletes only alerts
\* whose user_id is U; updateAlert on another user's or a missing alert
\* returns null and deleteAlert returns false, and no stored alert changes.
C21_AlertOwnership == []ReturnsOwnAlerts /\ [][TouchesOwnAlerts]_vars

\* u1 created alert 1; u2's updateAlert on it returned null and u2's
\* deleteAlert false; the alert is stored as created.
C21_Witness ==
    /\ Len(calls) = 3
    /\ calls[1].op = "createAlert" /\ calls[1].userId = "u1"
    /\ calls[2].op = "updateAlert" /\ calls[2].userId = "u2"
    /\ calls[2].alertId = 1 /\ calls[2].pc = "done"
    /\ calls[2].response = None
    /\ calls[3].op = "deleteAlert" /\ calls[3].userId = "u2"
    /\ calls[3].alertId = 1 /\ calls[3].response = Some(FALSE)
    /\ newsAlerts = {calls[1].response[1]}

=============================================================================
